---------------------------- MODULE Spec2Model ----------------------------
(***************************************************************************)
(* Model of display_controller.py: the DisplayController drawing           *)
(* primitives, the three widgets of the demo script, and the demo script   *)
(* itself (SIGINT handler, controller construction, render loop).          *)
(*                                                                         *)
(* Four specifications share one set of variables:                         *)
(*   Spec        the demo script: controller construction, render loop and *)
(*               the SIGINT handler;                                       *)
(*   SpecCanvas  draw_rectangle and draw_cpu_bars painting a pixel canvas; *)
(*   SpecSvc     draw_service_status and the draw calls it issues;         *)
(*   SpecUptime  draw_system_uptime and the text it draws.                 *)
(***************************************************************************)
EXTENDS Integers, Sequences, FiniteSets, TLC

VARIABLES
    pc,               \* position of the main thread in the demo script
    controllerBound,  \* the global name `controller` is assigned (line 259)
    image,            \* self._image of the demo's controller, as the draw calls made on it since it was created
    devBuf,           \* the driver's frame buffer (self._display), same representation
    panel,            \* the frame the physical panel shows
    exitStatus,       \* -1 while running, else the process exit status
    cycleOps,         \* operations of the current render cycle, in the order executed
    lastComposed,     \* the frame the last completed cycle composed (before the first: what the panel held at power-on)
    sample,           \* core_loads held by draw_cpu_bars between sampling and drawing
    sigAt,            \* position at which the running signal handler preempted the main flow
    canvas,           \* self._image as a set of foreground pixels (SpecCanvas)
    before,           \* canvas before the last widget call
    call,             \* the last widget call and its arguments
    ops,              \* the draw calls the last widget call issued, in order
    raised            \* the last widget call raised an exception

vars == <<pc, controllerBound, image, devBuf, panel, exitStatus,
          cycleOps, lastComposed, sample, sigAt, canvas, before, call, ops, raised>>

loopVars   == <<pc, controllerBound, image, devBuf, panel, exitStatus,
                cycleOps, lastComposed, sample, sigAt>>
widgetVars == <<canvas, before, call, ops, raised>>

---------------------------------------------------------------------------
(* Bounds of the model *)

\* pixel canvas of SpecCanvas (the real panel reports 128 x 64)
CanvasW == 4
CanvasH == 3
\* largest width and height of a direct draw_rectangle call
MaxSize == 2
\* widget parameters
MaxCores == 3
MaxBar == 2
MaxPadding == 1
MaxAnchor == 1
MaxServices == 3

---------------------------------------------------------------------------
(* Draw calls *)

RectReq(x, y, width, height, outline, fill) ==
    [kind |-> "rect", x |-> x, y |-> y, w |-> width, h |-> height,
     outline |-> outline, fill |-> fill, text |-> <<>>]

TextReq(x, y, text) ==
    [kind |-> "text", x |-> x, y |-> y, w |-> 0, h |-> 0,
     outline |-> FALSE, fill |-> TRUE, text |-> text]

\* a new image: nothing drawn, every pixel background
Blank == <<>>

---------------------------------------------------------------------------
(* Canvas pixels.  draw_rectangle hands (x, y, x + width, y + height) to   *)
(* ImageDraw.rectangle, which takes the two corners, the second corner     *)
(* included, and clips to the image.  rectangle(xy, fill, outline) first   *)
(* paints the whole region with the fill ink (True is foreground, False is *)
(* background), then, when the outline ink differs, paints the border with *)
(* the outline ink.  Sizes are not negative here: what the library does    *)
(* with corners in the wrong order differs between its versions.           *)

Cells == (0 .. CanvasW - 1) \X (0 .. CanvasH - 1)

Region(x0, y0, x1, y1) ==
    {c \in Cells : /\ x0 <= c[1] /\ c[1] <= x1
                   /\ y0 <= c[2] /\ c[2] <= y1}

Border(x0, y0, x1, y1) ==
    {c \in Region(x0, y0, x1, y1) : \/ c[1] \in {x0, x1}
                                    \/ c[2] \in {y0, y1}}

ImageDrawRectangle(img, x0, y0, x1, y1, outline, fill) ==
    LET filled == IF fill THEN img \cup Region(x0, y0, x1, y1)
                          ELSE img \ Region(x0, y0, x1, y1)
    IN  IF outline # fill
        THEN IF outline THEN filled \cup Border(x0, y0, x1, y1)
                        ELSE filled \ Border(x0, y0, x1, y1)
        ELSE filled

draw_rectangle(img, x, y, width, height, outline, fill) ==
    ImageDrawRectangle(img, x, y, x + width, y + height, outline, fill)

\* the pixels a rectangle call touches, before clipping
Footprint(r) ==
    (r.x .. r.x + r.w) \X (r.y .. r.y + r.h)

RECURSIVE Paint(_, _)
Paint(img, reqs) ==
    IF reqs = <<>> THEN img
    ELSE LET r == Head(reqs)
         IN  Paint(IF r.kind = "rect"
                   THEN draw_rectangle(img, r.x, r.y, r.w, r.h, r.outline, r.fill)
                   ELSE img,
                   Tail(reqs))

---------------------------------------------------------------------------
(* draw_cpu_bars *)

\* psutil.cpu_percent(interval=1, percpu): a list with one load per core when
\* percpu is true, one number (the system-wide load) when it is false
CpuLoads == {0, 50, 100}

RECURSIVE Sum(_)
Sum(s) == IF s = <<>> THEN 0 ELSE Head(s) + Sum(Tail(s))

cpu_percent(percpu, loads) ==
    IF percpu THEN [iterable |-> TRUE, vals |-> loads]
              ELSE [iterable |-> FALSE, vals |-> <<Sum(loads) \div Len(loads)>>]

\* load / 100 * full, the corner x + that truncated to a whole pixel by the
\* drawing library (the loads of CpuLoads make the float product exact)
BarLen(load, full) == (load * full) \div 100

RECURSIVE BarsNoGap(_, _, _, _, _, _, _)
BarsNoGap(x, y, bar_width, bar_height, padding, horizontal, loads) ==
    IF loads = <<>> THEN <<>>
    ELSE IF horizontal
         THEN <<RectReq(x, y, BarLen(Head(loads), bar_width), bar_height, TRUE, TRUE)>>
              \o BarsNoGap(x, y + bar_height + padding, bar_width, bar_height,
                           padding, horizontal, Tail(loads))
         ELSE <<RectReq(x, y, bar_width, BarLen(Head(loads), bar_height), TRUE, TRUE)>>
              \o BarsNoGap(x + bar_width + padding, y, bar_width, bar_height,
                           padding, horizontal, Tail(loads))

\* the body of `for load in core_loads` (lines 154-160)
RECURSIVE Bars(_, _, _, _, _, _, _)
Bars(x, y, bar_width, bar_height, padding, horizontal, loads) ==
    IF loads = <<>> THEN <<>>
    ELSE IF horizontal
         THEN <<RectReq(x, y, BarLen(Head(loads), bar_width), bar_height, TRUE, TRUE)>>
              \o Bars(x, y + bar_height + 1 + padding, bar_width, bar_height,
                      padding, horizontal, Tail(loads))
         ELSE <<RectReq(x, y, bar_width, BarLen(Head(loads), bar_height), TRUE, TRUE)>>
              \o Bars(x + bar_width + 1 + padding, y, bar_width, bar_height,
                      padding, horizontal, Tail(loads))

\* draw_cpu_bars after sampling: iterating a number raises TypeError before
\* anything is drawn
draw_cpu_bars(x, y, bar_width, bar_height, padding, horizontal, core_loads) ==
    IF core_loads.iterable
    THEN [raised |-> FALSE,
          ops |-> Bars(x, y, bar_width, bar_height, padding, horizontal, core_loads.vals)]
    ELSE [raised |-> TRUE, ops |-> <<>>]

---------------------------------------------------------------------------
(* draw_service_status *)

\* the two systemctl queries, is_failed looked at first
get_service_status(is_active, is_failed) ==
    IF is_failed THEN "FAILED"
    ELSE IF is_active THEN "active" ELSE "in-active"

rect_width == 23
rect_height == 13

\* one pass of the loop body (lines 192-204)
ServiceCompact(x, y, status, name) ==
    IF status = "FAILED"
    THEN [ops |-> <<RectReq(x, y, rect_width, rect_height, TRUE, FALSE),
                    RectReq(x + 2, y + 2, rect_width - 4, rect_height - 4, TRUE, FALSE),
                    TextReq(x + 3, y + 1, name)>>, drawn |-> TRUE]
    ELSE IF status = "in-active"
    THEN [ops |-> <<RectReq(x, y, rect_width, rect_height, TRUE, FALSE),
                    TextReq(x + 3, y + 1, name)>>, drawn |-> TRUE]
    ELSE [ops |-> <<>>, drawn |-> FALSE]

ServiceOps(x, y, status, name) ==
    IF status = "FAILED"
    THEN <<RectReq(x, y, rect_width, rect_height, TRUE, FALSE),
           RectReq(x + 2, y + 2, rect_width - 4, rect_height - 4, TRUE, FALSE),
           TextReq(x + 3, y + 1, name)>>
    ELSE IF status = "in-active"
    THEN <<RectReq(x, y, rect_width, rect_height, TRUE, FALSE),
           TextReq(x + 3, y + 1, name)>>
    ELSE <<>>

\* services: the dictionary's (service, display name) entries in iteration
\* order; status: service -> the answers of its two queries
RECURSIVE ServiceStatusCompacting(_, _, _, _)
ServiceStatusCompacting(x, y, services, status) ==
    IF services = <<>> THEN <<>>
    ELSE LET s == Head(services)
             st == get_service_status(status[s.id].active, status[s.id].failed)
             o == ServiceCompact(x, y, st, s.name)
         IN  o.ops \o ServiceStatusCompacting(IF o.drawn THEN x + rect_width + 2 ELSE x,
                                              y, Tail(services), status)

RECURSIVE draw_service_status(_, _, _, _)
draw_service_status(x, y, services, status) ==
    IF services = <<>> THEN <<>>
    ELSE LET s == Head(services)
             st == get_service_status(status[s.id].active, status[s.id].failed)
         IN  ServiceOps(x, y, st, s.name)
             \o draw_service_status(x + rect_width + 2, y, Tail(services), status)

---------------------------------------------------------------------------
(* draw_system_uptime *)

DigitChars == <<"0", "1", "2", "3", "4", "5", "6", "7", "8", "9">>

\* "%d" of a number >= 0
RECURSIVE Digits(_)
Digits(n) == IF n < 10 THEN <<DigitChars[n + 1]>>
             ELSE Digits(n \div 10) \o <<DigitChars[(n % 10) + 1]>>

\* "%0<k>d"
RECURSIVE ZeroPad(_, _)
ZeroPad(s, k) == IF Len(s) >= k THEN s ELSE ZeroPad(<<"0">> \o s, k)

\* str(timedelta): "[D day[s], ]H:MM:SS[.ffffff]"
timedelta_str(days, seconds, microseconds) ==
    LET hms == Digits(seconds \div 3600) \o <<":">>
               \o ZeroPad(Digits((seconds \div 60) % 60), 2) \o <<":">>
               \o ZeroPad(Digits(seconds % 60), 2)
        d   == IF days = 0 THEN <<>>
               ELSE Digits(days) \o <<" ", "d", "a", "y">>
                    \o (IF days # 1 THEN <<"s">> ELSE <<>>) \o <<",", " ">>
        f   == IF microseconds = 0 THEN <<>>
               ELSE <<".">> \o ZeroPad(Digits(microseconds), 6)
    IN  d \o hms \o f

\* s[:-7]
DropLast7(s) == IF Len(s) <= 7 THEN <<>> ELSE SubSeq(s, 1, Len(s) - 7)

\* centis: the first field of /proc/uptime, in hundredths of a second
get_system_uptime(centis) ==
    DropLast7(timedelta_str(centis \div 8640000, (centis \div 100) % 86400,
                            (centis % 100) * 10000))

draw_system_uptime(x, y, centis) == <<TextReq(x, y, get_system_uptime(centis))>>

---------------------------------------------------------------------------
(* Widget calls on a controller, outside the demo script *)

NoCall == [kind |-> "none"]

\* the demo-script variables, at rest while a widget specification runs
LoopAtRest ==
    /\ pc = "widgets" /\ controllerBound = TRUE
    /\ image = Blank /\ devBuf = Blank /\ panel = Blank /\ exitStatus = -1
    /\ cycleOps = <<>> /\ lastComposed = Blank /\ sample = <<>> /\ sigAt = "none"

\* canvases a call may find: nothing drawn, everything drawn, a chequerboard
InitCanvases == {{}, Cells, {c \in Cells : (c[1] + c[2]) % 2 = 0}}

LoadSeqs == UNION {[1 .. n -> CpuLoads] : n \in 1 .. MaxCores}

CanvasInit ==
    /\ LoopAtRest
    /\ canvas \in InitCanvases /\ before = canvas
    /\ call = NoCall /\ ops = <<>> /\ raised = FALSE

CallDrawRectangle ==
    /\ call.kind = "none"
    /\ \E x \in -1 .. CanvasW, y \in -1 .. CanvasH,
          width \in 0 .. MaxSize, height \in 0 .. MaxSize,
          outline \in BOOLEAN, fill \in BOOLEAN :
          /\ call' = [kind |-> "rect", x |-> x, y |-> y, width |-> width,
                      height |-> height, outline |-> outline, fill |-> fill]
          /\ ops' = <<RectReq(x, y, width, height, outline, fill)>>
          /\ canvas' = draw_rectangle(canvas, x, y, width, height, outline, fill)
    /\ before' = canvas
    /\ raised' = FALSE
    /\ UNCHANGED loopVars

CallDrawCpuBars ==
    /\ call.kind = "none"
    /\ \E x \in 0 .. MaxAnchor, y \in 0 .. MaxAnchor,
          bar_width \in 1 .. MaxBar, bar_height \in 1 .. MaxBar,
          padding \in 0 .. MaxPadding, horizontal \in BOOLEAN,
          percpu \in BOOLEAN, loads \in LoadSeqs :
          LET r == draw_cpu_bars(x, y, bar_width, bar_height, padding, horizontal,
                                 cpu_percent(percpu, loads))
          IN  /\ call' = [kind |-> "cpu", x |-> x, y |-> y, bar_width |-> bar_width,
                          bar_height |-> bar_height, padding |-> padding,
                          horizontal |-> horizontal, percpu |-> percpu,
                          loads |-> loads]
              /\ ops' = r.ops
              /\ raised' = r.raised
              /\ canvas' = Paint(canvas, r.ops)
    /\ before' = canvas
    /\ UNCHANGED loopVars

\* clear_canvas() after a call that returned
ClearCanvas ==
    /\ call.kind # "none" /\ ~raised
    /\ canvas' = {} /\ before' = {}
    /\ devBuf' = Blank
    /\ call' = NoCall /\ ops' = <<>>
    /\ UNCHANGED <<raised, pc, controllerBound, image, panel, exitStatus,
                   cycleOps, lastComposed, sample, sigAt>>

CanvasNext == CallDrawRectangle \/ CallDrawCpuBars \/ ClearCanvas

SpecCanvas == CanvasInit /\ [][CanvasNext]_vars

---------------------------------------------------------------------------

ServiceIds == 1 .. MaxServices

\* the display name of a service
Label(i) == <<"S", DigitChars[i + 1]>>

\* a dictionary's entries in iteration order: every key once
ServiceLists ==
    {s \in UNION {[1 .. n -> ServiceIds] : n \in 0 .. MaxServices} :
        \A i, j \in 1 .. Len(s) : i # j => s[i] # s[j]}

Entries(s) == [i \in 1 .. Len(s) |-> [id |-> s[i], name |-> Label(s[i])]]

StatusAnswers == [active : BOOLEAN, failed : BOOLEAN]

WidgetInit ==
    /\ LoopAtRest
    /\ canvas = {} /\ before = {}
    /\ call = NoCall /\ ops = <<>> /\ raised = FALSE

CallDrawServiceStatus ==
    /\ call.kind = "none"
    /\ \E x \in 0 .. MaxAnchor, y \in 0 .. MaxAnchor,
          s \in ServiceLists, status \in [ServiceIds -> StatusAnswers] :
          /\ call' = [kind |-> "svc", x |-> x, y |-> y, services |-> Entries(s),
                      status |-> status]
          /\ ops' = draw_service_status(x, y, Entries(s), status)
    /\ UNCHANGED <<canvas, before, raised, loopVars>>

\* the widget call returns
WidgetReturn ==
    /\ call.kind # "none"
    /\ call' = NoCall /\ ops' = <<>>
    /\ UNCHANGED <<canvas, before, raised, loopVars>>

SvcNext == CallDrawServiceStatus \/ WidgetReturn

SpecSvc == WidgetInit /\ [][SvcNext]_vars

---------------------------------------------------------------------------

\* whole seconds and hundredths read from /proc/uptime
UptimeSeconds == {0, 1, 59, 60, 3599, 3600, 3661, 35999, 36000, 86399, 86400,
                  90061, 172800, 360000}
UptimeCentis == {0, 7, 50, 99}

CallDrawSystemUptime ==
    /\ call.kind = "none"
    /\ \E x \in 0 .. MaxAnchor, y \in 0 .. MaxAnchor,
          s \in UptimeSeconds, c \in UptimeCentis :
          /\ call' = [kind |-> "uptime", x |-> x, y |-> y, centis |-> s * 100 + c]
          /\ ops' = draw_system_uptime(x, y, s * 100 + c)
    /\ UNCHANGED <<canvas, before, raised, loopVars>>

UptimeNext == CallDrawSystemUptime \/ WidgetReturn

SpecUptime == WidgetInit /\ [][UptimeNext]_vars

---------------------------------------------------------------------------
(* Properties of the drawing primitives and widgets *)

HalfOpen(x, y, width, height) ==
    {c \in Cells : /\ x <= c[1] /\ c[1] < x + width
                   /\ y <= c[2] /\ c[2] < y + height}

\* C5: after draw_rectangle(x, y, w, h) with fill=true (outline at its default),
\* every canvas pixel of [x, x+w) x [y, y+h) is foreground and every pixel
\* outside that half-open region keeps the value it had before the call.
C5_FillHalfOpen ==
    (call.kind = "rect" /\ call.fill /\ call.outline) =>
        /\ HalfOpen(call.x, call.y, call.width, call.height) \subseteq canvas
        /\ \A c \in Cells \ HalfOpen(call.x, call.y, call.width, call.height) :
              (c \in canvas) <=> (c \in before)

\* C6: draw_rectangle with width <= 0 or height <= 0 (outline at its default)
\* changes no pixel, and a CPU bar group whose loads are all 0 sets no pixel to
\* foreground, in both orientations.
C6_EmptyDrawsNothing ==
    /\ (call.kind = "rect" /\ call.outline /\ (call.width <= 0 \/ call.height <= 0)) =>
           canvas = before
    /\ (call.kind = "cpu" /\ ~raised /\ \A k \in 1 .. Len(call.loads) : call.loads[k] = 0) =>
           canvas \ before = {}

PaintedBy(r) == draw_rectangle({}, r.x, r.y, r.w, r.h, r.outline, r.fill)

\* C9: draw_cpu_bars with percpu=true and N sampled cores issues exactly N
\* rectangle draws, the k-th for the k-th sample; the k-th anchor is offset by
\* k * (thickness + 1 + padding) along the stacking axis and not at all along
\* the load axis; no pixel is painted by two different bars.
C9_PerCoreBars ==
    (call.kind = "cpu" /\ call.percpu) =>
        LET n == Len(call.loads)
            thickness == IF call.horizontal THEN call.bar_height ELSE call.bar_width
            step == thickness + 1 + call.padding
        IN  /\ ~raised
            /\ Len(ops) = n
            /\ \A k \in 1 .. n :
                  /\ ops[k].kind = "rect" /\ ops[k].fill
                  /\ IF call.horizontal
                     THEN /\ ops[k].x = call.x
                          /\ ops[k].y = call.y + (k - 1) * step
                          /\ ops[k].h = call.bar_height
                          /\ ops[k].w = BarLen(call.loads[k], call.bar_width)
                     ELSE /\ ops[k].y = call.y
                          /\ ops[k].x = call.x + (k - 1) * step
                          /\ ops[k].w = call.bar_width
                          /\ ops[k].h = BarLen(call.loads[k], call.bar_height)
            /\ \A j, k \in 1 .. n :
                  j # k => /\ Footprint(ops[j]) \cap Footprint(ops[k]) = {}
                           /\ PaintedBy(ops[j]) \cap PaintedBy(ops[k]) = {}

\* three bars stacked downward, the second and third visible on the canvas
C9_Witness ==
    /\ call.kind = "cpu" /\ call.percpu /\ call.horizontal
    /\ Len(ops) = 3
    /\ PaintedBy(ops[2]) # {}
    /\ ops[3].y = call.y + 2 * (call.bar_height + 1 + call.padding)

\* C10: draw_cpu_bars with percpu=false draws exactly one bar, at the anchor
\* (x, y), and returns without raising.
C10_AggregateBar ==
    (call.kind = "cpu" /\ ~call.percpu) =>
        /\ ~raised
        /\ Len(ops) = 1
        /\ ops[1].x = call.x /\ ops[1].y = call.y

\* the draw calls the claim gives the k-th service (k from 0), by its status
ExpectedServiceOps(k) ==
    LET e  == call.services[k + 1]
        st == get_service_status(call.status[e.id].active, call.status[e.id].failed)
        x  == call.x + 25 * k
        y  == call.y
    IN  IF st = "active" THEN <<>>
        ELSE IF st = "in-active"
        THEN <<RectReq(x, y, 23, 13, TRUE, FALSE), TextReq(x + 3, y + 1, e.name)>>
        ELSE <<RectReq(x, y, 23, 13, TRUE, FALSE),
               RectReq(x + 2, y + 2, 19, 9, TRUE, FALSE),
               TextReq(x + 3, y + 1, e.name)>>

RECURSIVE ExpectedFrom(_)
ExpectedFrom(k) ==
    IF k >= Len(call.services) THEN <<>>
    ELSE ExpectedServiceOps(k) \o ExpectedFrom(k + 1)

\* C7: draw_service_status issues nothing for an active service, one outlined
\* unfilled rectangle (x, y, 23, 13) plus the label for an inactive one, two
\* outlined unfilled rectangles (the inner inset by 2 pixels on each side) plus
\* the label for a failed one, the k-th service at x0 + 25 * k whatever the
\* statuses of the services before it.
C7_ServiceColumns ==
    call.kind = "svc" => ops = ExpectedFrom(0)

\* active, inactive, failed, in this order: the later boxes keep their columns
C7_Witness ==
    /\ call.kind = "svc" /\ Len(call.services) = 3
    /\ get_service_status(call.status[call.services[1].id].active,
                          call.status[call.services[1].id].failed) = "active"
    /\ get_service_status(call.status[call.services[2].id].active,
                          call.status[call.services[2].id].failed) = "in-active"
    /\ get_service_status(call.status[call.services[3].id].active,
                          call.status[call.services[3].id].failed) = "FAILED"
    /\ Len(ops) = 5
    /\ ops[1].x = call.x + 25 /\ ops[3].x = call.x + 50

\* H:MM:SS of a whole number of seconds
HMS(s) ==
    Digits(s \div 3600) \o <<":">> \o ZeroPad(Digits((s \div 60) % 60), 2)
    \o <<":">> \o ZeroPad(Digits(s % 60), 2)

\* C8: for every uptime value the text drawn is H:MM:SS, H = floor(s/3600)
\* unpadded, MM and SS zero-padded to two digits, without fraction or days.
C8_UptimeText ==
    call.kind = "uptime" =>
        ops = <<TextReq(call.x, call.y, HMS(call.centis \div 100))>>

---------------------------------------------------------------------------
(* The demo script (lines 246-302).  The model starts after line 256: the  *)
(* SIGINT handler is registered and `controller = DisplayController()` is  *)
(* about to run.  A SIGINT can be delivered whenever the process runs; the *)
(* interpreter then runs signal_handler in the main thread, on top of      *)
(* whatever it was doing, and the handler never returns to it.             *)

\* what the panel may hold when the script starts
StaleFrame == <<TextReq(0, 0, <<"?">>)>>

\* the dictionary of line 276, in one iteration order
DemoServices ==
    <<[id |-> 1, name |-> <<"N", "G", "X">>], [id |-> 2, name |-> <<"H", "A", "S">>],
      [id |-> 3, name |-> <<"G", "R", "A">>], [id |-> 4, name |-> <<"P", "Y", "L">>],
      [id |-> 5, name |-> <<"R", "P", "Y">>]>>

Up   == [active |-> TRUE, failed |-> FALSE]
Down == [active |-> FALSE, failed |-> FALSE]
Fail == [active |-> FALSE, failed |-> TRUE]

\* metric values the widgets of the loop may read
LoopUptimes  == {366100, 366150}
LoopStatuses == {<<Up, Up, Up, Up, Up>>, <<Up, Down, Up, Up, Up>>,
                 <<Up, Up, Fail, Down, Up>>}
LoopLoads    == {<<0, 100>>, <<50, 50>>}

get_display_width == 128

LoopPcs == {"construct", "bind", "clear", "uptime", "services", "cpu_sample",
            "cpu_draw", "render_image", "render_display"}
HandlerPcs == {"h_clear", "h_exit"}

FullCycle == <<"clear", "uptime", "services", "cpu", "render">>

Init ==
    /\ pc = "construct" /\ controllerBound = FALSE
    /\ image = Blank /\ devBuf = Blank
    /\ panel \in {Blank, StaleFrame}
    /\ lastComposed = panel
    /\ exitStatus = -1 /\ cycleOps = <<>> /\ sample = <<>> /\ sigAt = "none"
    /\ canvas = {} /\ before = {} /\ call = NoCall /\ ops = <<>> /\ raised = FALSE

clear_canvas_keeps_image(render) ==
    /\ image' = image
    /\ devBuf' = Blank
    /\ panel' = IF render THEN Blank ELSE panel

clear_canvas_always_renders(render) ==
    /\ image' = Blank
    /\ devBuf' = Blank
    /\ panel' = Blank

\* a new image, the driver's buffer cleared and, with render, sent to the panel
clear_canvas(render) ==
    /\ image' = Blank
    /\ devBuf' = Blank
    /\ panel' = IF render THEN Blank ELSE panel

\* DisplayController.__init__ (line 259, right-hand side): driver, image, clear_canvas()
Construct ==
    /\ pc = "construct"
    /\ clear_canvas(FALSE)
    /\ pc' = "bind"
    /\ UNCHANGED <<controllerBound, exitStatus, cycleOps, lastComposed, sample, sigAt,
                   widgetVars>>

\* line 259, the assignment to the global `controller`
Bind ==
    /\ pc = "bind"
    /\ controllerBound' = TRUE
    /\ pc' = "clear"
    /\ UNCHANGED <<image, devBuf, panel, exitStatus, cycleOps, lastComposed, sample,
                   sigAt, widgetVars>>

\* line 264
LoopClear ==
    /\ pc = "clear"
    /\ clear_canvas(FALSE)
    /\ cycleOps' = <<"clear">>
    /\ pc' = "uptime"
    /\ UNCHANGED <<controllerBound, exitStatus, lastComposed, sample, sigAt, widgetVars>>

\* line 273
DrawUptime ==
    /\ pc = "uptime"
    /\ \E u \in LoopUptimes : image' = image \o draw_system_uptime(2, 2, u)
    /\ cycleOps' = Append(cycleOps, "uptime")
    /\ pc' = "services"
    /\ UNCHANGED <<controllerBound, devBuf, panel, exitStatus, lastComposed, sample,
                   sigAt, widgetVars>>

\* lines 275-282
DrawServices ==
    /\ pc = "services"
    /\ \E st \in LoopStatuses : image' = image \o draw_service_status(2, 20, DemoServices, st)
    /\ cycleOps' = Append(cycleOps, "services")
    /\ pc' = "cpu_sample"
    /\ UNCHANGED <<controllerBound, devBuf, panel, exitStatus, lastComposed, sample,
                   sigAt, widgetVars>>

\* lines 293-299, then line 152: the call blocks for a second in the sampler
CpuSample ==
    /\ pc = "cpu_sample"
    /\ \E loads \in LoopLoads : sample' = cpu_percent(TRUE, loads)
    /\ pc' = "cpu_draw"
    /\ UNCHANGED <<controllerBound, image, devBuf, panel, exitStatus, cycleOps,
                   lastComposed, sigAt, widgetVars>>

\* lines 154-160; an exception leaves the script with a traceback, status 1
CpuDraw ==
    /\ pc = "cpu_draw"
    /\ LET r == draw_cpu_bars(2, 40, get_display_width - 1 - 2, 3, 1, TRUE, sample)
       IN  IF r.raised
           THEN /\ pc' = "terminated" /\ exitStatus' = 1
                /\ UNCHANGED <<image, cycleOps>>
           ELSE /\ image' = image \o r.ops
                /\ cycleOps' = Append(cycleOps, "cpu")
                /\ pc' = "render_image"
                /\ UNCHANGED exitStatus
    /\ sample' = <<>>
    /\ UNCHANGED <<controllerBound, devBuf, panel, lastComposed, sigAt, widgetVars>>

\* line 302, then line 212: the image is copied into the driver's buffer
RenderImage ==
    /\ pc = "render_image"
    /\ devBuf' = image
    /\ pc' = "render_display"
    /\ UNCHANGED <<controllerBound, image, panel, exitStatus, cycleOps, lastComposed,
                   sample, sigAt, widgetVars>>

\* line 213: the buffer is sent to the panel; the loop goes round
RenderDisplay ==
    /\ pc = "render_display"
    /\ panel' = devBuf
    /\ lastComposed' = image
    /\ cycleOps' = Append(cycleOps, "render")
    /\ pc' = "clear"
    /\ UNCHANGED <<controllerBound, image, devBuf, exitStatus, sample, sigAt, widgetVars>>

\* SIGINT: signal_handler is entered (line 246), also on top of itself
Signal ==
    /\ pc \in LoopPcs \cup HandlerPcs
    /\ sigAt' = IF pc \in HandlerPcs THEN sigAt ELSE pc
    /\ pc' = "h_clear"
    /\ UNCHANGED <<controllerBound, image, devBuf, panel, exitStatus, cycleOps,
                   lastComposed, sample, widgetVars>>

\* line 251: controller.clear_canvas(True); while `controller` is not yet
\* assigned the lookup raises NameError, which ends the script with status 1
HandlerClear ==
    /\ pc = "h_clear"
    /\ IF controllerBound
       THEN /\ clear_canvas(TRUE)
            /\ pc' = "h_exit"
            /\ UNCHANGED exitStatus
       ELSE /\ pc' = "terminated" /\ exitStatus' = 1
            /\ UNCHANGED <<image, devBuf, panel>>
    /\ UNCHANGED <<controllerBound, cycleOps, lastComposed, sample, sigAt, widgetVars>>

HandlerReturns ==
    /\ pc = "h_exit"
    /\ pc' = sigAt
    /\ UNCHANGED <<controllerBound, image, devBuf, panel, exitStatus, cycleOps,
                   lastComposed, sample, sigAt, widgetVars>>

\* line 252: sys.exit(0)
HandlerExit ==
    /\ pc = "h_exit"
    /\ pc' = "terminated" /\ exitStatus' = 0
    /\ UNCHANGED <<controllerBound, image, devBuf, panel, cycleOps, lastComposed,
                   sample, sigAt, widgetVars>>

Next ==
    \/ Construct \/ Bind
    \/ LoopClear \/ DrawUptime \/ DrawServices \/ CpuSample \/ CpuDraw
    \/ RenderImage \/ RenderDisplay
    \/ Signal \/ HandlerClear \/ HandlerExit

Spec == Init /\ [][Next]_vars

---------------------------------------------------------------------------
(* Properties of the demo script *)

\* C1 as stated: a SIGINT is acted on only between cycles; a cycle whose step
\* (1) has started runs all its widget draws and its render() before
\* clear(render=true) and the exit.
C1_OnlyBetweenCycles ==
    (pc \in {"h_exit", "terminated"} /\ exitStatus # 1) =>
        cycleOps \in {<<>>, FullCycle}

\* C1 as amended: a SIGINT is acted on where it is delivered, also in the
\* middle of a cycle; once signal_handler has started, control never returns
\* to the loop and no further widget draw or render() of the interrupted cycle
\* is executed before clear(render=true) and the exit.
C1_HandlerPreempts ==
    [][(pc \in HandlerPcs) =>
          (/\ pc' \in HandlerPcs \cup {"terminated"}
           /\ cycleOps' = cycleOps
           /\ lastComposed' = lastComposed)]_vars

\* the handler ran between the uptime and the service widgets and the process
\* has exited: the cycle stays cut short
C1_Witness ==
    /\ pc = "terminated" /\ exitStatus = 0
    /\ sigAt = "services"
    /\ cycleOps = <<"clear", "uptime">>
    /\ panel = Blank

\* C2: whenever the SIGINT is delivered, the process ends with exit status 0
\* and the last frame sent to the panel is all-background.
C2_CleanExit ==
    pc = "terminated" => (exitStatus = 0 /\ panel = Blank)

\* C3: in every cycle that is not cancelled the canvas is cleared first, then
\* the uptime, service and CPU widgets draw, then the canvas is rendered, each
\* once: no widget draws before the clear and nothing is rendered before all
\* three widgets have drawn.
C3_CycleOrder ==
    /\ pc = "uptime" => (cycleOps = <<"clear">> /\ image = Blank)
    /\ pc = "services" =>
          (cycleOps = <<"clear", "uptime">> /\ Len(image) = 1 /\ image[1].kind = "text")
    /\ pc \in {"cpu_sample", "cpu_draw"} => cycleOps = <<"clear", "uptime", "services">>
    /\ pc \in {"render_image", "render_display"} =>
          /\ cycleOps = <<"clear", "uptime", "services", "cpu">>
          /\ image[1].kind = "text" /\ image[1].y = 2
          /\ image[Len(image)].kind = "rect" /\ image[Len(image)].y >= 40
    /\ pc = "render_display" => devBuf = image
    /\ pc = "clear" =>
          /\ cycleOps \in {<<>>, FullCycle}
          /\ cycleOps = FullCycle => (panel = image /\ Len(image) >= 3)

\* a second cycle, rendered after all its widgets drew on a fresh canvas
C3_Witness ==
    /\ pc = "clear" /\ cycleOps = FullCycle
    /\ panel = image
    /\ \E i \in 1 .. Len(image) : image[i].kind = "rect" /\ image[i].y = 20
    /\ image[1].text = <<"1", ":", "0", "1", ":", "0", "1">>

\* C4: what the panel shows changes only in render() (line 213) and in
\* clear(render=true) of the handler; clear(render=false) and the widget draws
\* leave it alone, so during the composition of a cycle the panel shows the
\* complete frame of the cycle before.
C4_PanelChanges ==
    /\ [][panel' # panel => pc \in {"render_display", "h_clear"}]_vars
    /\ [](pc \in LoopPcs => panel = lastComposed)

\* the widgets of a later cycle have drawn something else than the panel shows
C4_Witness ==
    /\ pc = "render_image"
    /\ lastComposed # StaleFrame /\ lastComposed # Blank
    /\ panel = lastComposed
    /\ image # panel
    /\ devBuf = Blank

=============================================================================
